---- MODULE Spec2Model ----
(***************************************************************************)
(* A model of cb::Pipe (src/src/pipe.cc): a growable byte buffer with a    *)
(* read head and a write head, compaction (pack), growth in multiples of   *)
(* an allocation chunk (ensureCapacity) and a cooperative lock flag.       *)
(*                                                                         *)
(* size_t is modelled as the integers modulo 2^SizeBits: every sum,        *)
(* difference and product the code computes in size_t is reduced modulo    *)
(* Word.  The block of memory is a partial function from offsets (from the *)
(* start of the block) to byte values: an offset outside its domain holds  *)
(* an indeterminate value (never written since new[], or outside the       *)
(* block).                                                                 *)
(***************************************************************************)
EXTENDS Integers, Sequences, FiniteSets, TLC

VARIABLES
    pipe,      \* the fields of the Pipe object
    last,      \* the last call: operation, outcome, return value, the heads before it
    tracked,   \* only callbacks have moved the heads so far (no produced, consumed, clear)
    written,   \* while tracked: the bytes accepted from producer callbacks, in order
    readOut    \* while tracked: the bytes accepted by consumer callbacks, in order

vars == <<pipe, last, tracked, written, readOut>>

-----------------------------------------------------------------------------
(* Bounds of the model *)

\* width of size_t in bits
SizeBits == 16
\* the Pipe is constructed with a size in 1..MaxSize
MaxSize == 2
\* small byte counts passed to and returned by the calls: 0..MaxN, and
\* Word-1-MaxN..Word-1; a producer callback writes at most MaxN bytes
MaxN == 1
\* the write head is advanced to at most MaxHead
MaxHead == 2

Word == 2 ^ SizeBits
\* ssize_t: the largest value of the signed type of the same width
SsizeMax == (Word \div 2) - 1

\* the byte values written: two, which is enough to tell one byte, and one
\* order of bytes, from another
Bytes == {0, 1}
\* the value of a byte that was never written: distinct from every byte value
Uninit == 2

-----------------------------------------------------------------------------
(* size_t arithmetic *)

Add(a, b) == (a + b) % Word
Sub(a, b) == (a - b) % Word
Mul(a, b) == (a * b) % Word

Max(a, b) == IF a >= b THEN a ELSE b

-----------------------------------------------------------------------------
(* The block of memory *)

\* the value at offset i of the block
Cell(mem, i) == IF i \in DOMAIN mem THEN mem[i] ELSE Uninit

\* the values at offsets from .. from+len-1, as a sequence
Cells(mem, from, len) == [k \in 1 .. len |-> Cell(mem, from + k - 1)]

\* the block of size bytes after cells is copied to offsets at .. at+Len(cells)-1;
\* what is copied past the end of the block is not part of the block
Store(mem, size, at, cells) ==
    LET range == at .. (at + Len(cells) - 1)
        val(i) == IF i \in range THEN cells[i - at + 1] ELSE Cell(mem, i)
        dom == {i \in (DOMAIN mem) \cup range : i < size /\ val(i) # Uninit}
    IN  [i \in dom |-> val(i)]

\* a block fresh from new uint8_t[n]
NewBlock == [i \in {} |-> 0]

-----------------------------------------------------------------------------
(* Outcomes of a call *)

\* the call returned normally
Ok(p, ret) == [pipe |-> p, res |-> "ok", ret |-> ret]
\* the call threw std::logic_error
LogicError(p) == [pipe |-> p, res |-> "logic_error", ret |-> 0]
\* operator new threw std::bad_alloc
BadAlloc(p) == [pipe |-> p, res |-> "bad_alloc", ret |-> 0]
\* the process died in the call (a copy that ran off the mapped memory)
Crash(p) == [pipe |-> p, res |-> "crash", ret |-> 0]
\* the call never returns
Hang(p) == [pipe |-> p, res |-> "hang", ret |-> 0]

-----------------------------------------------------------------------------
(* Construction *)

defaultAllocationChunkSize == 512

\* the rounding of the chunk size done downwards
calculateAllocationChunkSize_RoundDown(nbytes) ==
    Mul(nbytes \div defaultAllocationChunkSize, defaultAllocationChunkSize)

calculateAllocationChunkSize(nbytes) ==
    LET chunks == nbytes \div defaultAllocationChunkSize
        rounded == IF nbytes % defaultAllocationChunkSize # 0
                   THEN Add(chunks, 1)
                   ELSE chunks
    IN  Mul(rounded, defaultAllocationChunkSize)

\* Pipe::Pipe(size): a block of exactly size bytes, both heads at 0, unlocked
Pipe(size) ==
    [ memory |-> NewBlock,
      size |-> size,
      read_head |-> 0,
      write_head |-> 0,
      locked |-> FALSE,
      allocation_chunk_size |->
          Max(calculateAllocationChunkSize(size), defaultAllocationChunkSize) ]

-----------------------------------------------------------------------------
(* Accessors of the class *)

\* the number of bytes between the write head and the end of the block
wsize(p) == Sub(p.size, p.write_head)

\* the number of bytes between the read head and the write head
rsize(p) == Sub(p.write_head, p.read_head)

\* the view handed to a consumer: offset and length
getAvailableReadSpace(p) == [at |-> p.read_head, len |-> rsize(p)]

\* the view handed to a producer: offset and length
getAvailableWriteSpace(p) == [at |-> p.write_head, len |-> wsize(p)]

empty(p) == p.read_head = p.write_head

full(p) == p.write_head = p.size

-----------------------------------------------------------------------------
(* The operations.  Each gives the set of outcomes the call can have. *)

\* produced() that advances the write head before it checks the tail space
produced_MoveThenCheck(p, nbytes) ==
    IF p.locked
    THEN {LogicError(p)}
    ELSE LET q == [p EXCEPT !.write_head = Add(p.write_head, nbytes)]
         IN  IF q.write_head > p.size THEN {LogicError(q)} ELSE {Ok(q, 0)}

produced(p, nbytes) ==
    IF p.locked
    THEN {LogicError(p)}
    ELSE IF Add(p.write_head, nbytes) > p.size
    THEN {LogicError(p)}
    ELSE {Ok([p EXCEPT !.write_head = Add(p.write_head, nbytes)], 0)}

consumed(p, nbytes) ==
    IF p.locked
    THEN {LogicError(p)}
    ELSE IF Add(p.read_head, nbytes) > p.write_head
    THEN {LogicError(p)}
    ELSE LET rh == Add(p.read_head, nbytes)
         IN  IF rh = p.write_head
             THEN {Ok([p EXCEPT !.read_head = 0, !.write_head = 0], 0)}
             ELSE {Ok([p EXCEPT !.read_head = rh], 0)}

lock(p) ==
    IF p.locked
    THEN {LogicError(p)}
    ELSE {Ok([p EXCEPT !.locked = TRUE], 0)}

\* unlock() without its check of the flag
unlock_Unchecked(p) == {Ok([p EXCEPT !.locked = FALSE], 0)}

unlock(p) ==
    IF ~p.locked
    THEN {LogicError(p)}
    ELSE {Ok([p EXCEPT !.locked = FALSE], 0)}

\* pack() that leaves the heads where they were
pack_KeepHeads(p) ==
    IF p.locked
    THEN {LogicError(p)}
    ELSE {Ok(p, IF empty(p) THEN 1 ELSE 0)}

\* pack() that returns full() for empty()
pack_ReturnsFull(p) ==
    IF p.locked
    THEN {LogicError(p)}
    ELSE IF p.write_head < p.read_head
    THEN {Crash(p)}
    ELSE LET len == Sub(p.write_head, p.read_head)
             q == [p EXCEPT
                     !.memory = Store(p.memory, p.size, 0,
                                      Cells(p.memory, p.read_head, len)),
                     !.write_head = Sub(p.write_head, p.read_head),
                     !.read_head = 0]
         IN  {Ok(q, IF full(q) THEN 1 ELSE 0)}

\* pack() that moves the heads and leaves the bytes where they were
pack_NoMove(p) ==
    IF p.locked
    THEN {LogicError(p)}
    ELSE IF p.write_head < p.read_head
    THEN {Crash(p)}
    ELSE LET q == [p EXCEPT !.write_head = Sub(p.write_head, p.read_head),
                            !.read_head = 0]
         IN  {Ok(q, IF empty(q) THEN 1 ELSE 0)}

\* pack() returns empty(): 1 for true, 0 for false.  memmove of a length that
\* wrapped below zero (write_head < read_head) runs off the mapped memory; a
\* memmove that reads past the end of the block is undefined: the process
\* dies or the call goes on.
pack(p) ==
    IF p.locked
    THEN {LogicError(p)}
    ELSE IF p.read_head = p.write_head
    THEN {Ok([p EXCEPT !.read_head = 0, !.write_head = 0], 1)}
    ELSE IF p.write_head < p.read_head
    THEN {Crash(p)}
    ELSE LET len == Sub(p.write_head, p.read_head)
             q == [p EXCEPT
                     !.memory = Store(p.memory, p.size, 0,
                                      Cells(p.memory, p.read_head, len)),
                     !.write_head = Sub(p.write_head, p.read_head),
                     !.read_head = 0]
             done == Ok(q, IF empty(q) THEN 1 ELSE 0)
         IN  IF p.write_head > p.size THEN {Crash(p), done} ELSE {done}

\* clear() that resets the read head only
clear_KeepWrite(p) ==
    IF p.locked
    THEN {LogicError(p)}
    ELSE {Ok([p EXCEPT !.read_head = 0], 0)}

\* clear() without its check of the flag
clear_Unguarded(p) == {Ok([p EXCEPT !.write_head = 0, !.read_head = 0], 0)}

clear(p) ==
    IF p.locked
    THEN {LogicError(p)}
    ELSE {Ok([p EXCEPT !.write_head = 0, !.read_head = 0], 0)}

RECURSIVE GCD(_, _)
GCD(a, b) == IF b = 0 THEN a ELSE GCD(b, a % b)

\* count * chunk modulo Word repeats after this many values of count
LoopPeriod(chunk) == Word \div GCD(chunk, Word)

\* the while loop of ensureCapacity, which counts up from 1 until
\* count * chunk + tail_space + read_head (in size_t) is no longer below
\* nbytes: the count it ends with, the smallest that passes the test, or 0
\* when no count does and the loop never ends (the sum is periodic in count)
GrowthLoop(chunk, tail_space, read_head, nbytes) ==
    LET ends == { count \in 1 .. LoopPeriod(chunk) :
                    ~(Add(Add(Mul(count, chunk), tail_space), read_head) < nbytes) }
    IN  IF ends = {}
        THEN 0
        ELSE CHOOSE count \in ends : \A other \in ends : count <= other

\* new uint8_t[nsize] succeeds for at most this many bytes: room for two
\* chunks more than the largest Pipe constructed
AllocLimit == MaxSize + 2 * defaultAllocationChunkSize

\* the third path of ensureCapacity: a bigger block.  A loop that no count
\* ends has no side effect, which is undefined: the call never returns, as
\* the loop is written, or the process dies.  std::copy of a length
\* that wrapped below zero runs off the mapped memory; a copy that reads
\* past the old block or writes past the new one is undefined: the process
\* dies or the call goes on.
grow(p, nbytes, tail_space) ==
    LET count == GrowthLoop(p.allocation_chunk_size, tail_space,
                            p.read_head, nbytes)
        nsize == Add(p.size, Mul(count, p.allocation_chunk_size))
        len == Sub(p.write_head, p.read_head)
        q == [p EXCEPT
                !.memory = Store(NewBlock, nsize, 0,
                                 Cells(p.memory, p.read_head, len)),
                !.size = nsize,
                !.write_head = Sub(p.write_head, p.read_head),
                !.read_head = 0]
        copied == IF p.write_head < p.read_head
                  THEN {Crash(p)}
                  ELSE IF p.write_head > p.size \/ len > nsize
                  THEN {Crash(p), Ok(q, wsize(q))}
                  ELSE {Ok(q, wsize(q))}
    IN  IF count = 0
        THEN {Hang(p), Crash(p)}
        ELSE {BadAlloc(p)} \cup (IF nsize <= AllocLimit THEN copied ELSE {})

ensureCapacity(p, nbytes) ==
    IF p.locked
    THEN {LogicError(p)}
    ELSE LET tail_space == Sub(p.size, p.write_head)
         IN  IF tail_space >= nbytes
             THEN {Ok(p, wsize(p))}
             ELSE IF nbytes <= Add(tail_space, p.read_head)
             THEN { IF r.res # "ok"
                    THEN r
                    ELSE IF wsize(r.pipe) < nbytes
                    THEN LogicError(r.pipe)
                    ELSE Ok(r.pipe, wsize(r.pipe)) : r \in pack(p) }
             ELSE grow(p, nbytes, tail_space)

\* consume(consumer): the callback is handed the readable view and returns
\* ret; called tells whether the callback ran, view what it was handed
consume(p, ret) ==
    IF p.locked
    THEN {LogicError(p) @@ [called |-> FALSE]}
    ELSE LET avail == getAvailableReadSpace(p)
         IN  IF ret > 0
             THEN { [r EXCEPT !.ret = IF r.res = "ok" THEN ret ELSE 0]
                        @@ [called |-> TRUE, view |-> avail]
                    : r \in consumed(p, ret) }
             ELSE {Ok(p, ret) @@ [called |-> TRUE, view |-> avail]}

\* produce(producer): the callback is handed the writable view, writes data
\* at its start and returns ret
produce(p, data, ret) ==
    IF p.locked
    THEN {LogicError(p) @@ [called |-> FALSE]}
    ELSE LET avail == getAvailableWriteSpace(p)
             q == [p EXCEPT !.memory = Store(p.memory, p.size, avail.at, data)]
         IN  IF ret > 0
             THEN { [r EXCEPT !.ret = IF r.res = "ok" THEN ret ELSE 0]
                        @@ [called |-> TRUE, view |-> avail]
                    : r \in produced(q, ret) }
             ELSE {Ok(q, ret) @@ [called |-> TRUE, view |-> avail]}

-----------------------------------------------------------------------------
(* The arguments the calls are tried with *)

\* byte counts: the small ones, the largest of size_t, and the values at and
\* just above the thresholds in edges
SizeArgs(edges) ==
    (0 .. MaxN) \cup {Word - 1 - k : k \in 0 .. MaxN}
    \cup edges \cup {Add(e, 1) : e \in edges}

\* ensureCapacity compares nbytes with the tail space and with the tail space
\* plus the consumed prefix; one chunk more asks for a second chunk
EnsureCapacityArgs(p) ==
    LET tail == Sub(p.size, p.write_head)
        free == Add(tail, p.read_head)
    IN  SizeArgs({tail, free, Add(free, p.allocation_chunk_size)})

\* produced compares write_head + nbytes with the size; the sum wraps to 0 at
\* Word - write_head
ProducedArgs(p) == SizeArgs({Sub(p.size, p.write_head), Sub(0, p.write_head)})

\* consumed compares read_head + nbytes with write_head; the sum wraps to 0 at
\* Word - read_head
ConsumedArgs(p) == SizeArgs({Sub(p.write_head, p.read_head), Sub(0, p.read_head)})

\* what a callback returns (ssize_t): an error, nothing, a few bytes, the
\* whole view, more than the view, the largest value
RetArgs(len) ==
    {r \in ((-1) .. (MaxN + 1)) \cup {len, len + 1, SsizeMax} : r <= SsizeMax}

\* what a producer callback that returns ret writes at the start of its view
\* of len bytes: the ret bytes it reports, when the view has room for them,
\* and nothing when it reports an error, no bytes, or more than it was given
DataArgs(len, ret) ==
    IF 1 <= ret /\ ret <= len /\ ret <= MaxN
    THEN [1 .. ret -> Bytes]
    ELSE {<<>>}

-----------------------------------------------------------------------------
(* The state machine *)

\* what last keeps of the Pipe a call started from
Snapshot(p) ==
    [ size |-> p.size, read_head |-> p.read_head, write_head |-> p.write_head,
      locked |-> p.locked ]

Init ==
    /\ \E size \in 1 .. MaxSize : pipe = Pipe(size)
    /\ last = [op |-> "Pipe", res |-> "ok", ret |-> 0, pre |-> Snapshot(pipe)]
    /\ tracked = FALSE
    /\ written = <<>>
    /\ readOut = <<>>

\* the same, with the bytes that pass through the callbacks recorded
InitFifo ==
    /\ \E size \in 1 .. MaxSize : pipe = Pipe(size)
    /\ last = [op |-> "Pipe", res |-> "ok", ret |-> 0, pre |-> Snapshot(pipe)]
    /\ tracked = TRUE
    /\ written = <<>>
    /\ readOut = <<>>

\* the process is alive and not stuck in a call
Running == last.res \notin {"crash", "hang"}

\* the call op ends with outcome r
Call(op, r) ==
    /\ r.pipe.write_head <= Max(pipe.write_head, MaxHead)
    /\ pipe' = r.pipe
    /\ last' = [op |-> op, res |-> r.res, ret |-> r.ret, pre |-> Snapshot(pipe)]

Untrack ==
    /\ tracked' = FALSE
    /\ written' = <<>>
    /\ readOut' = <<>>

EnsureCapacity ==
    /\ Running
    /\ \E n \in EnsureCapacityArgs(pipe) : \E r \in ensureCapacity(pipe, n) :
          Call("ensureCapacity", r)
    /\ UNCHANGED <<tracked, written, readOut>>

Produced ==
    /\ Running
    /\ \E n \in ProducedArgs(pipe) : \E r \in produced(pipe, n) :
          Call("produced", r)
    /\ Untrack

Consumed ==
    /\ Running
    /\ \E n \in ConsumedArgs(pipe) : \E r \in consumed(pipe, n) :
          Call("consumed", r)
    /\ Untrack

Pack ==
    /\ Running
    /\ \E r \in pack(pipe) : Call("pack", r)
    /\ UNCHANGED <<tracked, written, readOut>>

Clear ==
    /\ Running
    /\ \E r \in clear(pipe) : Call("clear", r)
    /\ Untrack

Lock ==
    /\ Running
    /\ \E r \in lock(pipe) : Call("lock", r)
    /\ UNCHANGED <<tracked, written, readOut>>

Unlock ==
    /\ Running
    /\ \E r \in unlock(pipe) : Call("unlock", r)
    /\ UNCHANGED <<tracked, written, readOut>>

\* the bytes of mem a call that returned ret took from the view at offset at
Accepted(r, mem, at) ==
    IF r.res = "ok" /\ r.ret > 0 THEN Cells(mem, at, r.ret) ELSE <<>>

Produce ==
    /\ Running
    /\ \E ret \in RetArgs(getAvailableWriteSpace(pipe).len) :
       \E data \in DataArgs(getAvailableWriteSpace(pipe).len, ret) :
       \E r \in produce(pipe, data, ret) :
          /\ Call("produce", r)
          /\ IF tracked
             THEN /\ Len(written) + Len(Accepted(r, r.pipe.memory, pipe.write_head))
                        <= MaxHead + 1
                  /\ written' =
                        written \o Accepted(r, r.pipe.memory, pipe.write_head)
             ELSE UNCHANGED written
    /\ UNCHANGED <<tracked, readOut>>

Consume ==
    /\ Running
    /\ \E ret \in RetArgs(getAvailableReadSpace(pipe).len) :
       \E r \in consume(pipe, ret) :
          /\ Call("consume", r)
          /\ IF tracked
             THEN readOut' = readOut \o Accepted(r, pipe.memory, pipe.read_head)
             ELSE UNCHANGED readOut
    /\ UNCHANGED <<tracked, written>>

Next ==
    \/ EnsureCapacity
    \/ Produced
    \/ Consumed
    \/ Pack
    \/ Clear
    \/ Lock
    \/ Unlock
    \/ Produce
    \/ Consume

Spec == Init /\ [][Next]_vars

\* only the callbacks, ensureCapacity and pack are called
NextFifo ==
    \/ EnsureCapacity
    \/ Pack
    \/ Produce
    \/ Consume

SpecFifo == InitFifo /\ [][NextFifo]_vars

-----------------------------------------------------------------------------
(* The claims *)

\* the live bytes: the block's bytes from the read head up to the write head
Live(p) == Cells(p.memory, p.read_head, p.write_head - p.read_head)

\* the process survived the call: it returned or threw
Survived(r) == r.res \in {"ok", "logic_error", "bad_alloc"}

\* C1: in every reachable state 0 <= read_offset <= write_offset <= capacity.
C1_HeadsOrdered ==
    /\ 0 <= pipe.read_head
    /\ pipe.read_head <= pipe.write_head
    /\ pipe.write_head <= pipe.size

\* C8: in every reachable unlocked state and for every n, produced(n) fails and
\* leaves both heads unchanged when n > capacity - write_offset, and otherwise
\* succeeds with write_offset increased by exactly n and read_offset unchanged.
C8_ProducedChecksTailSpace ==
    (Running /\ ~pipe.locked) =>
        \A n \in ProducedArgs(pipe) : \A r \in produced(pipe, n) :
            IF n > pipe.size - pipe.write_head
            THEN /\ r.res = "logic_error"
                 /\ r.pipe.read_head = pipe.read_head
                 /\ r.pipe.write_head = pipe.write_head
            ELSE /\ r.res = "ok"
                 /\ r.pipe.write_head = pipe.write_head + n
                 /\ r.pipe.read_head = pipe.read_head

\* C9: in every reachable unlocked state and for every n, consumed(n) fails and
\* leaves both heads unchanged when n > write_offset - read_offset, and
\* otherwise succeeds with the number of live bytes decreased by exactly n.
C9_ConsumedChecksLiveBytes ==
    (Running /\ ~pipe.locked) =>
        \A n \in ConsumedArgs(pipe) : \A r \in consumed(pipe, n) :
            IF n > pipe.write_head - pipe.read_head
            THEN /\ r.res = "logic_error"
                 /\ r.pipe.read_head = pipe.read_head
                 /\ r.pipe.write_head = pipe.write_head
            ELSE /\ r.res = "ok"
                 /\ r.pipe.write_head - r.pipe.read_head
                        = (pipe.write_head - pipe.read_head) - n

\* C10: in every reachable state read_offset = write_offset implies that both
\* are 0.
C10_EmptyAtStart ==
    (pipe.read_head = pipe.write_head) =>
        (pipe.read_head = 0 /\ pipe.write_head = 0)

\* C2: in every reachable unlocked state and for every n, an ensureCapacity(n)
\* that returns gives r >= n with r = capacity - write_offset afterwards, and
\* produced(k) then succeeds for every k <= r.
C2_EnsureCapacityGrantsTail ==
    (Running /\ ~pipe.locked) =>
        \A n \in EnsureCapacityArgs(pipe) : \A r \in ensureCapacity(pipe, n) :
            r.res = "ok" =>
                /\ r.ret >= n
                /\ r.ret = r.pipe.size - r.pipe.write_head
                /\ \A k \in SizeArgs({r.ret}) : \A q \in produced(r.pipe, k) :
                       k <= r.ret => q.res = "ok"

\* C3: ensureCapacity(n) never changes the live bytes or their number, and
\* when it grows the block (n > tail space + read_offset) the live bytes lie
\* from offset 0 of the new block: read_offset = 0 and write_offset = old
\* write_offset - old read_offset.
C3_EnsureCapacityKeepsLiveBytes ==
    Running =>
        \A n \in EnsureCapacityArgs(pipe) : \A r \in ensureCapacity(pipe, n) :
            Survived(r) =>
                /\ Live(r.pipe) = Live(pipe)
                /\ r.pipe.write_head - r.pipe.read_head
                       = pipe.write_head - pipe.read_head
                /\ (r.res = "ok" /\ n > (pipe.size - pipe.write_head) + pipe.read_head) =>
                       /\ r.pipe.read_head = 0
                       /\ r.pipe.write_head = pipe.write_head - pipe.read_head
                       /\ r.pipe.write_head <= r.pipe.size

IsPrefix(s, t) == Len(s) <= Len(t) /\ s = SubSeq(t, 1, Len(s))

\* C5: while only produce, consume, ensureCapacity and pack are called, the
\* bytes consumers accepted are a prefix of the bytes producers wrote, and the
\* readable region is exactly the bytes produced and not yet consumed, in the
\* order they were produced.
C5_Fifo ==
    (Running /\ tracked) =>
        /\ IsPrefix(readOut, written)
        /\ Live(pipe) = SubSeq(written, Len(readOut) + 1, Len(written))

\* what C6 says of every call on a locked Pipe
C6_EveryCallRefused ==
    (Running /\ pipe.locked) =>
        /\ \A n \in EnsureCapacityArgs(pipe) : ensureCapacity(pipe, n) = {LogicError(pipe)}
        /\ \A n \in ProducedArgs(pipe) : produced(pipe, n) = {LogicError(pipe)}
        /\ \A n \in ConsumedArgs(pipe) : consumed(pipe, n) = {LogicError(pipe)}
        /\ pack(pipe) = {LogicError(pipe)}
        /\ clear(pipe) = {LogicError(pipe)}
        /\ \A ret \in RetArgs(getAvailableWriteSpace(pipe).len) :
           \A data \in DataArgs(getAvailableWriteSpace(pipe).len, ret) :
           \A r \in produce(pipe, data, ret) :
              r.res = "logic_error" /\ ~r.called /\ r.pipe = pipe
        /\ \A ret \in RetArgs(getAvailableReadSpace(pipe).len) :
           \A r \in consume(pipe, ret) :
              r.res = "logic_error" /\ ~r.called /\ r.pipe = pipe

\* C6: while locked, every call of ensureCapacity, produced, consumed, pack,
\* clear, produce and consume fails with a logic error, does not run the
\* callback, and leaves the storage, the capacity and both heads unchanged; so
\* from a lock() to the next unlock() these four never change.
C6_LockedRefusesEverything ==
    /\ []C6_EveryCallRefused
    /\ [][pipe.locked =>
            /\ last'.op # "unlock" => (last'.res = "logic_error" /\ pipe' = pipe)
            /\ pipe'.memory = pipe.memory
            /\ pipe'.size = pipe.size
            /\ pipe'.read_head = pipe.read_head
            /\ pipe'.write_head = pipe.write_head]_vars

\* C6's case: a locked Pipe that holds bytes has just refused a clear()
C6_Witness ==
    /\ pipe.locked
    /\ last.op = "clear"
    /\ last.res = "logic_error"
    /\ last.pre.locked
    /\ pipe.read_head > 0
    /\ pipe.write_head > pipe.read_head

\* what C7 says of lock() and unlock() called in a state
C7_LockUnlockInState ==
    Running =>
        /\ \A r \in lock(pipe) :
              /\ (r.res = "ok") = ~pipe.locked
              /\ r.res \in {"ok", "logic_error"}
              /\ r.pipe = [pipe EXCEPT !.locked = TRUE]
              /\ r.res = "ok" =>
                    \A q \in unlock(r.pipe) : q.res = "ok" /\ q.pipe = pipe
        /\ \A r \in unlock(pipe) :
              /\ (r.res = "ok") = pipe.locked
              /\ r.res \in {"ok", "logic_error"}
              /\ r.pipe = [pipe EXCEPT !.locked = FALSE]

\* C7: lock() succeeds exactly when unlocked and sets locked; unlock() succeeds
\* exactly when locked and clears locked; a failing lock() or unlock() leaves
\* locked unchanged; neither changes the heads, the capacity or the storage,
\* so lock() followed by unlock() gives back the identical state.
C7_LockUnlock ==
    /\ []C7_LockUnlockInState
    /\ [][/\ last'.op = "lock" =>
               /\ (last'.res = "ok") = ~pipe.locked
               /\ pipe' = [pipe EXCEPT !.locked = TRUE]
          /\ last'.op = "unlock" =>
               /\ (last'.res = "ok") = pipe.locked
               /\ pipe' = [pipe EXCEPT !.locked = FALSE]]_vars

\* C7's case: a Pipe that holds bytes has been locked and has just been unlocked
C7_Witness ==
    /\ last.op = "unlock"
    /\ last.res = "ok"
    /\ last.pre.locked
    /\ ~pipe.locked
    /\ pipe.read_head > 0
    /\ pipe.write_head > pipe.read_head

\* C11: in every reachable unlocked state clear() puts both heads at 0 whatever
\* the Pipe held, leaves the capacity, the allocation chunk and the lock flag
\* unchanged, and a second clear() gives the same state again.
C11_ClearResets ==
    (Running /\ ~pipe.locked) =>
        \A r \in clear(pipe) :
            /\ r.res = "ok"
            /\ r.pipe.read_head = 0
            /\ r.pipe.write_head = 0
            /\ r.pipe.size = pipe.size
            /\ r.pipe.allocation_chunk_size = pipe.allocation_chunk_size
            /\ r.pipe.locked = pipe.locked
            /\ \A q \in clear(r.pipe) : q.res = "ok" /\ q.pipe = r.pipe

\* C11's case: clear() has just emptied a Pipe that held bytes behind a read
\* head above 0
C11_Witness ==
    /\ last.op = "clear"
    /\ last.res = "ok"
    /\ ~last.pre.locked
    /\ last.pre.read_head > 0
    /\ last.pre.write_head > last.pre.read_head
    /\ pipe.read_head = 0
    /\ pipe.write_head = 0
    /\ pipe.size = last.pre.size

\* the heads, the capacity and the lock flag of p and q are the same
SameOffsets(p, q) ==
    /\ p.read_head = q.read_head
    /\ p.write_head = q.write_head
    /\ p.size = q.size
    /\ p.locked = q.locked

\* C12: in an unlocked state consume(fn) calls fn once with the view of length
\* write_offset - read_offset at read_offset, and produce(fn) calls fn once
\* with the view of length capacity - write_offset at write_offset; when fn
\* returns k > 0 the outcome is that of consumed(k) / produced(k) on the heads
\* before the call, when it returns k <= 0 no head changes, and a call that
\* returns gives back k.
C12_CallbackSemantics ==
    (Running /\ ~pipe.locked) =>
        /\ \A ret \in RetArgs(getAvailableReadSpace(pipe).len) :
           \A r \in consume(pipe, ret) :
              /\ r.called
              /\ r.view.at = pipe.read_head
              /\ r.view.len = pipe.write_head - pipe.read_head
              /\ IF ret > 0
                 THEN \E q \in consumed(pipe, ret) :
                         q.res = r.res /\ SameOffsets(q.pipe, r.pipe)
                 ELSE r.res = "ok" /\ SameOffsets(pipe, r.pipe)
              /\ r.res = "ok" => r.ret = ret
        /\ \A ret \in RetArgs(getAvailableWriteSpace(pipe).len) :
           \A data \in DataArgs(getAvailableWriteSpace(pipe).len, ret) :
           \A r \in produce(pipe, data, ret) :
              /\ r.called
              /\ r.view.at = pipe.write_head
              /\ r.view.len = pipe.size - pipe.write_head
              /\ IF ret > 0
                 THEN \E q \in produced(pipe, ret) :
                         q.res = r.res /\ SameOffsets(q.pipe, r.pipe)
                 ELSE r.res = "ok" /\ SameOffsets(pipe, r.pipe)
              /\ r.res = "ok" => r.ret = ret

\* the call ended in an error: it threw
Failed(r) == r.res \in {"logic_error", "bad_alloc"}

\* C13: whenever a call of ensureCapacity, produced, consumed, pack, clear,
\* lock, unlock, produce or consume ends in an error, both heads, the capacity
\* and the lock flag are exactly as before the call; so for a callback that
\* reports more bytes than its view holds, and for ensureCapacity on the
\* compaction and the growth path.
C13_NoPartialSuccess ==
    Running =>
        /\ \A n \in EnsureCapacityArgs(pipe) : \A r \in ensureCapacity(pipe, n) :
              Failed(r) => SameOffsets(pipe, r.pipe)
        /\ \A n \in ProducedArgs(pipe) : \A r \in produced(pipe, n) :
              Failed(r) => SameOffsets(pipe, r.pipe)
        /\ \A n \in ConsumedArgs(pipe) : \A r \in consumed(pipe, n) :
              Failed(r) => SameOffsets(pipe, r.pipe)
        /\ \A r \in pack(pipe) \cup clear(pipe) \cup lock(pipe) \cup unlock(pipe) :
              Failed(r) => SameOffsets(pipe, r.pipe)
        /\ \A ret \in RetArgs(getAvailableWriteSpace(pipe).len) :
           \A data \in DataArgs(getAvailableWriteSpace(pipe).len, ret) :
           \A r \in produce(pipe, data, ret) :
              Failed(r) => SameOffsets(pipe, r.pipe)
        /\ \A ret \in RetArgs(getAvailableReadSpace(pipe).len) :
           \A r \in consume(pipe, ret) :
              Failed(r) => SameOffsets(pipe, r.pipe)

\* C13's case: produce() on an unlocked Pipe that holds bytes has just thrown,
\* which it does when the callback reports more bytes than its view holds
C13_Witness ==
    /\ last.op = "produce"
    /\ last.res = "logic_error"
    /\ ~last.pre.locked
    /\ pipe.read_head > 0
    /\ pipe.write_head > pipe.read_head
    /\ pipe.write_head <= pipe.size
    /\ SameOffsets(pipe, last.pre)

\* C14: in every reachable unlocked state ensureCapacity(n) changes nothing at
\* all when n <= capacity - write_offset; otherwise, when
\* n <= (capacity - write_offset) + read_offset, it compacts (read_offset
\* becomes 0, write_offset decreases by the old read_offset) and leaves the
\* capacity unchanged; the capacity changes only when
\* n > (capacity - write_offset) + read_offset.
C14_CheapestPath ==
    (Running /\ ~pipe.locked) =>
        \A n \in EnsureCapacityArgs(pipe) : \A r \in ensureCapacity(pipe, n) :
            LET tail == pipe.size - pipe.write_head
                free == tail + pipe.read_head
            IN  /\ n <= tail => (r.res = "ok" /\ r.pipe = pipe)
                /\ (n > tail /\ n <= free /\ Survived(r)) =>
                       /\ r.res = "ok"
                       /\ r.pipe.read_head = 0
                       /\ r.pipe.write_head = pipe.write_head - pipe.read_head
                       /\ r.pipe.size = pipe.size
                /\ r.pipe.size # pipe.size => n > free

\* the smallest integer count >= 1 with count * unit + free >= n
SmallestCount(unit, free, n) ==
    IF n <= free + unit THEN 1 ELSE ((n - free) + unit - 1) \div unit

\* the outcomes of: Pipe(100); produced(50); consumed(20); ensureCapacity(480)
ScenarioA ==
    UNION { ensureCapacity(c.pipe, 480) :
            c \in UNION { consumed(q.pipe, 20) : q \in produced(Pipe(100), 50) } }

\* C15: when ensureCapacity(n) must grow (n > (capacity - write_offset) +
\* read_offset) the new capacity is the old capacity + count * growth_unit for
\* the smallest count >= 1 with count * growth_unit + (capacity -
\* write_offset) + read_offset >= n, and the tail space r it returns satisfies
\* n <= r < n + growth_unit; a Pipe built with size 100, after produced(50),
\* consumed(20), ensureCapacity(480), has capacity 612, read_offset 0,
\* write_offset 30 and the call returns 582.
C15_GrowthCount ==
    /\ \E r \in ScenarioA : r.res = "ok"
    /\ \A r \in ScenarioA :
          r.res = "ok" =>
              /\ r.pipe.size = 612
              /\ r.pipe.read_head = 0
              /\ r.pipe.write_head = 30
              /\ r.ret = 582
    /\ (Running /\ ~pipe.locked) =>
          \A n \in EnsureCapacityArgs(pipe) : \A r \in ensureCapacity(pipe, n) :
              LET unit == pipe.allocation_chunk_size
                  free == (pipe.size - pipe.write_head) + pipe.read_head
              IN  (n > free /\ r.res = "ok") =>
                      /\ r.pipe.size = pipe.size + SmallestCount(unit, free, n) * unit
                      /\ n <= r.ret
                      /\ r.ret < n + unit

\* the outcomes of every call on p other than ensureCapacity
OtherOutcomes(p) ==
    UNION { produced(p, n) : n \in ProducedArgs(p) }
    \cup UNION { consumed(p, n) : n \in ConsumedArgs(p) }
    \cup pack(p) \cup clear(p) \cup lock(p) \cup unlock(p)
    \cup UNION { UNION { produce(p, data, ret) :
                            data \in DataArgs(getAvailableWriteSpace(p).len, ret) } :
                  ret \in RetArgs(getAvailableWriteSpace(p).len) }
    \cup UNION { consume(p, ret) : ret \in RetArgs(getAvailableReadSpace(p).len) }

\* the outcomes of every call that can be made on p
Outcomes(p) ==
    UNION { ensureCapacity(p, n) : n \in EnsureCapacityArgs(p) }
    \cup OtherOutcomes(p)

\* the sizes a Pipe is constructed with in C16: the small ones, and those
\* around one and two chunks
ConstructSizes ==
    (0 .. MaxSize)
    \cup { k * defaultAllocationChunkSize + d : k \in 1 .. 2, d \in (-1) .. 1 }

\* the smallest multiple of 512 that is >= s
SmallestMultiple(s) ==
    LET multiples == { k * 512 : k \in 0 .. ((s \div 512) + 1) }
    IN  CHOOSE m \in multiples :
            m >= s /\ \A other \in multiples : other >= s => m <= other

\* the growth unit C16 gives a Pipe constructed with size s
GrowthUnit(s) == Max(512, SmallestMultiple(s))

\* C16: construction with size s gives capacity s exactly, both heads 0,
\* unlocked, and growth_unit = max(512, smallest multiple of 512 >= s); no
\* operation changes growth_unit in any reachable state.
C16_ConstructionAndGrowthUnit ==
    /\ \A s \in ConstructSizes :
          /\ Pipe(s).size = s
          /\ Pipe(s).read_head = 0
          /\ Pipe(s).write_head = 0
          /\ Pipe(s).locked = FALSE
          /\ Pipe(s).allocation_chunk_size = GrowthUnit(s)
    /\ last.op = "Pipe" =>
          /\ pipe.size \in 1 .. MaxSize
          /\ pipe.read_head = 0 /\ pipe.write_head = 0 /\ ~pipe.locked
          /\ pipe.allocation_chunk_size = GrowthUnit(pipe.size)
    /\ \E s \in 1 .. MaxSize : pipe.allocation_chunk_size = GrowthUnit(s)
    /\ Running =>
          \A r \in Outcomes(pipe) :
              r.pipe.allocation_chunk_size = pipe.allocation_chunk_size

\* C16's case: ensureCapacity has just grown the block and the allocation
\* chunk is the one the Pipe was constructed with
C16_Witness ==
    /\ last.op = "ensureCapacity"
    /\ last.res = "ok"
    /\ pipe.size > last.pre.size
    /\ last.pre.size \in 1 .. MaxSize
    /\ pipe.allocation_chunk_size = GrowthUnit(last.pre.size)

\* C17: the logic error in the compaction branch of ensureCapacity is never
\* raised: in every reachable unlocked state and for every n with
\* capacity - write_offset < n <= (capacity - write_offset) + read_offset the
\* tail space after pack() is >= n, and no ensureCapacity(n) on an unlocked
\* Pipe throws a logic error.
C17_CompactionAlwaysSuffices ==
    (Running /\ ~pipe.locked) =>
        \A n \in EnsureCapacityArgs(pipe) :
            /\ \A r \in ensureCapacity(pipe, n) : r.res # "logic_error"
            /\ ( /\ pipe.size - pipe.write_head < n
                 /\ n <= (pipe.size - pipe.write_head) + pipe.read_head ) =>
                   \A q \in pack(pipe) :
                       q.res = "ok" => q.pipe.size - q.pipe.write_head >= n

\* C17's case: ensureCapacity has just made room by compaction: the bytes
\* moved down from a read head above 0 and the capacity stayed
C17_Witness ==
    /\ last.op = "ensureCapacity"
    /\ last.res = "ok"
    /\ ~last.pre.locked
    /\ last.pre.read_head > 0
    /\ last.pre.write_head > last.pre.read_head
    /\ last.pre.write_head <= last.pre.size
    /\ pipe.size = last.pre.size
    /\ pipe.read_head = 0
    /\ pipe.write_head = last.pre.write_head - last.pre.read_head
    /\ last.ret = pipe.size - pipe.write_head
    /\ last.ret > last.pre.size - last.pre.write_head

\* C18: ensureCapacity(n) terminates in every reachable unlocked state and for
\* every n of size_t: the loop that increments count until
\* count * growth_unit + tail_space + read_offset >= n, evaluated in size_t,
\* exits after finitely many iterations.
C18_EnsureCapacityTerminates ==
    (Running /\ ~pipe.locked) =>
        \A n \in EnsureCapacityArgs(pipe) :
            /\ GrowthLoop(pipe.allocation_chunk_size,
                          Sub(pipe.size, pipe.write_head), pipe.read_head, n) # 0
            /\ \A r \in ensureCapacity(pipe, n) : r.res # "hang"

\* C19: in every reachable state the capacity is initial_size + k *
\* growth_unit for an integer k >= 0; k never decreases: ensureCapacity leaves
\* the capacity or adds a multiple of growth_unit to it; and produced,
\* consumed, pack, clear, lock, unlock, produce and consume leave the capacity
\* unchanged.
C19_CapacityOnlyGrows ==
    /\ \E s \in 1 .. MaxSize :
          /\ pipe.size >= s
          /\ (pipe.size - s) % pipe.allocation_chunk_size = 0
    /\ Running =>
          /\ \A n \in EnsureCapacityArgs(pipe) : \A r \in ensureCapacity(pipe, n) :
                /\ r.pipe.size >= pipe.size
                /\ (r.pipe.size - pipe.size) % pipe.allocation_chunk_size = 0
          /\ \A r \in OtherOutcomes(pipe) : r.pipe.size = pipe.size

\* C20: pack() returns true exactly when read_offset = write_offset before the
\* call, and then both end at 0; it never changes the number of live bytes;
\* and a second pack() right after the first changes neither the heads nor the
\* storage and returns the same value.
C20_PackReturnAndIdempotence ==
    (Running /\ ~pipe.locked) =>
        \A r \in pack(pipe) :
            r.res = "ok" =>
                /\ r.ret \in {0, 1}
                /\ (r.ret = 1) = (pipe.read_head = pipe.write_head)
                /\ pipe.read_head = pipe.write_head =>
                       (r.pipe.read_head = 0 /\ r.pipe.write_head = 0)
                /\ r.pipe.write_head - r.pipe.read_head
                       = pipe.write_head - pipe.read_head
                /\ \A q \in pack(r.pipe) :
                       q.res = "ok" => (q.pipe = r.pipe /\ q.ret = r.ret)

\* C20's case: pack() has just returned false after moving live bytes down,
\* and a second pack() would leave the Pipe as it is and return false again
C20_Witness ==
    /\ last.op = "pack"
    /\ last.res = "ok"
    /\ last.ret = 0
    /\ ~last.pre.locked
    /\ last.pre.read_head > 0
    /\ last.pre.write_head > last.pre.read_head
    /\ last.pre.write_head <= last.pre.size
    /\ pipe.write_head = last.pre.write_head - last.pre.read_head
    /\ DOMAIN pipe.memory # {}
    /\ \A q \in pack(pipe) : q.res = "ok" /\ q.pipe = pipe /\ q.ret = 0

====
